---------------------------- MODULE Spec2Model ----------------------------
(* A model of the lead-import dialog of                                     *)
(* src/src/components/leads/ImportLeadsDialog.tsx: the React state of the   *)
(* component, its handlers (handleFileChange, processLeads, handleImport,   *)
(* resetState, handleClose), the fetchCallers effect, and the row           *)
(* normalisation and phone de-duplication that processLeads performs.       *)
(*                                                                          *)
(* JavaScript strings are sequences of one-character strings, so that       *)
(* String(), toLowerCase(), replace(/\s/g, "") and Number() are computed.   *)
EXTENDS Integers, Sequences, FiniteSets, Bags, TLC

VARIABLES
    open,            \* the `open` prop (line 25)
    step,            \* line 70
    file,            \* line 71
    rawData,         \* line 72
    columns,         \* line 73
    columnMapping,   \* line 74
    parsedLeads,     \* line 75
    duplicates,      \* line 76
    isProcessing,    \* line 77
    assignmentMode,  \* line 80
    selectedCaller,  \* line 81
    callers,         \* line 82
    reads,           \* handleFileChange calls suspended at `await arrayBuffer()`
    fetches,         \* fetchCallers() promises not yet settled
    imported         \* the arguments of the calls of the onImport prop made by the
                     \* latest step, in order (<<>>: it made none)

vars == <<open, step, file, rawData, columns, columnMapping, parsedLeads,
          duplicates, isProcessing, assignmentMode, selectedCaller, callers,
          reads, fetches, imported>>

-----------------------------------------------------------------------------
(* Bounds of the model.                                                     *)

\* Suspended handleFileChange calls at one time.
MaxReads == 2
\* Unsettled fetchCallers() promises at one time.
MaxFetches == 1
\* Date.now() returns a value in 0..MaxNow.
MaxNow == 1
\* Data rows of a sheet drawn by InitNorm.
MaxRows == 3

-----------------------------------------------------------------------------
(* JavaScript values.                                                       *)

Undefined == [t |-> "undef"]
Str(s) == [t |-> "str", s |-> s]
Num(n) == [t |-> "num", n |-> n]

Range(f) == {f[i] : i \in DOMAIN f}

\* !val is false: a non-empty string or a non-zero number.
Truthy(val) ==
    \/ val.t = "str" /\ val.s # <<>>
    \/ val.t = "num" /\ val.n # 0

Digits == <<"0", "1", "2", "3", "4", "5", "6", "7", "8", "9">>

DigitValue(c) == CHOOSE d \in 0..9 : Digits[d + 1] = c

IsDigit(c) == c \in Range(Digits)

\* The characters /\s/ matches, among those the model uses.
IsSpace(c) == c \in {" ", "\t"}

RECURSIVE DecStr(_)
\* String(n) of a non-negative integer.
DecStr(n) == IF n < 10 THEN <<Digits[n + 1]>>
             ELSE DecStr(n \div 10) \o <<Digits[(n % 10) + 1]>>

\* String(val) of a string or a number.
ToStr(val) == IF val.t = "str" THEN val.s ELSE DecStr(val.n)

UpperToLower == [c \in {"W", "O", "N", "H", "T", "G", "L", "E"} |->
                   CASE c = "W" -> "w" [] c = "O" -> "o" [] c = "N" -> "n"
                     [] c = "H" -> "h" [] c = "T" -> "t" [] c = "G" -> "g"
                     [] c = "L" -> "l" [] c = "E" -> "e"]

\* s.toLowerCase()
ToLowerCase(s) == [i \in DOMAIN s |->
                     IF s[i] \in DOMAIN UpperToLower THEN UpperToLower[s[i]] ELSE s[i]]

\* s.replace(/\s/g, "")
StripSpace(s) == SelectSeq(s, LAMBDA c : ~IsSpace(c))

RECURSIVE TrimLeft(_)
TrimLeft(s) == IF s # <<>> /\ IsSpace(Head(s)) THEN TrimLeft(Tail(s)) ELSE s

RECURSIVE TrimRight(_)
TrimRight(s) == IF s # <<>> /\ IsSpace(s[Len(s)])
                THEN TrimRight(SubSeq(s, 1, Len(s) - 1)) ELSE s

RECURSIVE DigitsValue(_)
DigitsValue(s) == IF s = <<>> THEN 0
                  ELSE 10 * DigitsValue(SubSeq(s, 1, Len(s) - 1)) + DigitValue(s[Len(s)])

\* Number(val): [nan |-> TRUE] stands for NaN.  A string is trimmed; the empty
\* string is 0, a string of decimal digits its value, any other string of the
\* model's alphabet NaN.
ToNumber(val) ==
    IF val.t = "num" THEN [nan |-> FALSE, n |-> val.n]
    ELSE LET s == TrimRight(TrimLeft(val.s))
         IN  IF \A i \in DOMAIN s : IsDigit(s[i])
             THEN [nan |-> FALSE, n |-> DigitsValue(s)]
             ELSE [nan |-> TRUE, n |-> 0]

\* Number(val) || 0
NumberOrZero(val) == LET x == ToNumber(val) IN IF x.nan THEN 0 ELSE x.n


-----------------------------------------------------------------------------
(* String literals of the source, as sequences of characters.               *)

S_website == <<"w", "e", "b", "s", "i", "t", "e">>

S_google == <<"g", "o", "o", "g", "l", "e">>

S_referral == <<"r", "e", "f", "e", "r", "r", "a", "l">>

S_social == <<"s", "o", "c", "i", "a", "l">>

S_other == <<"o", "t", "h", "e", "r">>

S_new == <<"n", "e", "w">>

S_qualified == <<"q", "u", "a", "l", "i", "f", "i", "e", "d">>

S_proposal == <<"p", "r", "o", "p", "o", "s", "a", "l">>

S_negotiation == <<"n", "e", "g", "o", "t", "i", "a", "t", "i", "o", "n">>

S_won == <<"w", "o", "n">>

S_lost == <<"l", "o", "s", "t">>

S_hot == <<"h", "o", "t">>

S_warm == <<"w", "a", "r", "m">>

S_cold == <<"c", "o", "l", "d">>

S_constructor == <<"c", "o", "n", "s", "t", "r", "u", "c", "t", "o", "r">>

S_proto == <<"_", "_", "p", "r", "o", "t", "o", "_", "_">>

\* Cell texts of the sheets below.
S_asha == <<"A", "s", "h", "a">>

S_ravi == <<"R", "a", "v", "i">>

S_98_7 == <<"9", "8", " ", "7">>

S_987 == <<"9", "8", "7">>

S_99 == <<"9", "9">>

S_WON == <<"W", "O", "N">>

S_abc == <<"a", "b", "c">>

S_12 == <<"1", "2">>

S_blank == <<" ">>

-----------------------------------------------------------------------------
(* The field schema and the vocabulary tables.                              *)

leadFields == <<
    [key |-> "name",        label |-> "Name",         required |-> TRUE],
    [key |-> "phone",       label |-> "Phone",        required |-> TRUE],
    [key |-> "email",       label |-> "Email",        required |-> FALSE],
    [key |-> "city",        label |-> "City",         required |-> FALSE],
    [key |-> "value",       label |-> "Lead Value",   required |-> FALSE],
    [key |-> "source",      label |-> "Source",       required |-> FALSE],
    [key |-> "stage",       label |-> "Stage",        required |-> FALSE],
    [key |-> "priority",    label |-> "Priority",     required |-> FALSE],
    [key |-> "status",      label |-> "Status",       required |-> FALSE],
    [key |-> "projectName", label |-> "Project Name", required |-> FALSE],
    [key |-> "notes",       label |-> "Notes",        required |-> FALSE] >>

FieldKeys == {leadFields[i].key : i \in DOMAIN leadFields}

RequiredKeys == {leadFields[i].key : i \in {j \in DOMAIN leadFields : leadFields[j].required}}

sourceMapping ==
    (S_website :> "website") @@ (S_google :> "google_ads") @@ (S_referral :> "referral")
    @@ (S_social :> "social_media") @@ (S_other :> "other")

stageMapping ==
    (S_new :> "new") @@ (S_qualified :> "qualified") @@ (S_proposal :> "proposal")
    @@ (S_negotiation :> "negotiation") @@ (S_won :> "won") @@ (S_lost :> "lost")

priorityMapping ==
    (S_hot :> "hot") @@ (S_warm :> "warm") @@ (S_cold :> "cold")

\* Property names every object literal inherits from Object.prototype and
\* that are unchanged by toLowerCase().
PrototypeKeys == {S_constructor, S_proto}

\* table[key] || fallback, for a table written as an object literal: an own
\* key gives its value, an inherited property gives that (truthy) object, and
\* any other key gives undefined, hence the fallback.
LookupOr(table, key, fallback) ==
    IF key \in DOMAIN table THEN table[key]
    ELSE IF key \in PrototypeKeys THEN "<inherited Object.prototype property>"
    ELSE fallback

-----------------------------------------------------------------------------
(* processLeads: one row to one lead, then de-duplication by phone.         *)

\* row[col]
RowGet(row, col) == IF col \in DOMAIN row THEN row[col] ELSE Undefined

\* The object literal of lines 133-144; index is forEach's 0-based index.
NewLead(now, index) ==
    [id          |-> <<"import", now, index>>,
     createdAt   |-> now,
     updatedAt   |-> now,
     status      |-> "active",
     stage       |-> "new",
     priority    |-> "warm",
     category    |-> "property",
     subcategory |-> "india_property"]

\* The keys the switch of lines 150-161 has a case for ("status" has none).
SwitchKeys == {"name", "phone", "email", "city", "value", "source", "stage",
               "priority", "projectName", "notes"}

\* The value a case of the switch assigns to lead[key].
FieldValue(key, val) ==
    CASE key = "value"    -> NumberOrZero(val)
      [] key = "source"   -> LookupOr(sourceMapping, ToLowerCase(ToStr(val)), "other")
      [] key = "stage"    -> LookupOr(stageMapping, ToLowerCase(ToStr(val)), "new")
      [] key = "priority" -> LookupOr(priorityMapping, ToLowerCase(ToStr(val)), "warm")
      [] OTHER            -> ToStr(val)

\* Lines 133-162 with line 155 assigning lead.value only when Number(val) is
\* a number.
BuildLeadSkipsNaN(row, mapping, now, index) ==
    LET base == NewLead(now, index)
        assigned == {k \in DOMAIN mapping \cap SwitchKeys :
                        /\ Truthy(RowGet(row, mapping[k]))
                        /\ k = "value" => ~ToNumber(RowGet(row, mapping[k])).nan}
    IN  [f \in DOMAIN base \cup assigned |->
            IF f \in assigned THEN FieldValue(f, RowGet(row, mapping[f])) ELSE base[f]]

\* Lines 133-162: the defaults, then one assignment per mapped key whose
\* cell is truthy.  Each key assigns its own field, so the order of
\* Object.entries does not matter.
BuildLead(row, mapping, now, index) ==
    LET base == NewLead(now, index)
        assigned == {k \in DOMAIN mapping \cap SwitchKeys : Truthy(RowGet(row, mapping[k]))}
    IN  [f \in DOMAIN base \cup assigned |->
            IF f \in assigned THEN FieldValue(f, RowGet(row, mapping[f])) ELSE base[f]]

\* !lead[f] for a string field: the field is unset or the empty string.
Falsy(lead, f) == f \notin DOMAIN lead \/ lead[f] = <<>>

\* Line 164 without its name test.
RejectedPhoneOnly(lead) == Falsy(lead, "phone")

\* Line 164: if (!lead.name || !lead.phone) return
Rejected(lead) == Falsy(lead, "name") \/ Falsy(lead, "phone")

\* Line 166 without the replace.
PhoneKeyUnstripped(phone) == phone

\* Line 166: lead.phone.replace(/\s/g, "")
PhoneKey(phone) == StripSpace(phone)

\* Lines 128-130 starting from the staged result instead of from nothing.
StalePass == [leads |-> parsedLeads, phoneSet |-> {}, dupCount |-> duplicates]

\* Lines 128-130: the accumulators of one pass.
EmptyPass == [leads |-> <<>>, phoneSet |-> {}, dupCount |-> 0]

\* Lines 164-170 with line 167's return missing: a repeat is counted and kept.
AcceptLeadKeepsRepeat(acc, lead) ==
    IF Rejected(lead) THEN acc
    ELSE [acc EXCEPT !.dupCount = IF PhoneKey(lead.phone) \in acc.phoneSet
                                  THEN @ + 1 ELSE @,
                     !.phoneSet = @ \cup {PhoneKey(lead.phone)},
                     !.leads = Append(@, lead)]

\* Lines 164-170 with the lead put in front of the result instead of at its end.
AcceptLeadPrepends(acc, lead) ==
    IF Rejected(lead) THEN acc
    ELSE IF PhoneKey(lead.phone) \in acc.phoneSet
         THEN [acc EXCEPT !.dupCount = @ + 1]
         ELSE [acc EXCEPT !.phoneSet = @ \cup {PhoneKey(lead.phone)},
                          !.leads = <<lead>> \o @]

\* Lines 164-170: the fate of one built lead.
AcceptLead(acc, lead) ==
    IF Rejected(lead) THEN acc
    ELSE IF PhoneKey(lead.phone) \in acc.phoneSet
         THEN [acc EXCEPT !.dupCount = @ + 1]
         ELSE [acc EXCEPT !.phoneSet = @ \cup {PhoneKey(lead.phone)},
                          !.leads = Append(@, lead)]

RECURSIVE ForEachRow(_, _, _, _, _)
\* rawData.forEach((row, index) => ...), from the 1-based position i on.
ForEachRow(rows, mapping, now, i, acc) ==
    IF i > Len(rows) THEN acc
    ELSE ForEachRow(rows, mapping, now, i + 1,
                    AcceptLead(acc, BuildLead(rows[i], mapping, now, i - 1)))

\* The leads and dupCount processLeads computes from rawData and columnMapping.
ProcessResult(rows, mapping, now) == ForEachRow(rows, mapping, now, 1, EmptyPass)

-----------------------------------------------------------------------------
(* Files.  A file is what XLSX.read and sheet_to_json(sheet, {header: 1})   *)
(* make of its bytes: `ok` is FALSE when XLSX.read throws, and `json` is    *)
(* the array of row arrays otherwise (the first one the header row; a blank *)
(* cell is undefined).                                                      *)

CorruptFile == [ok |-> FALSE, json |-> <<>>]

\* A workbook whose first sheet has no row at all.
EmptySheetFile == [ok |-> TRUE, json |-> <<>>]

\* A sheet whose first two rows have the same phone up to white space and
\* whose third row has a blank name.
ScenarioFile ==
    [ok |-> TRUE,
     json |-> << <<"Full Name", "Mobile">>,
                 <<Str(S_asha), Str(S_98_7)>>,
                 <<Str(S_ravi), Str(S_987)>>,
                 <<Undefined, Str(S_99)>> >>]

Files == {CorruptFile, EmptySheetFile, ScenarioFile}

\* Object.fromEntries(headers.map((h, i) => [h, r[i]])): a later column of
\* the same name overwrites an earlier one, a cell past the end of the row
\* array is undefined.
RowObject(headers, r) ==
    [h \in Range(headers) |->
        LET i == CHOOSE j \in DOMAIN headers :
                    headers[j] = h /\ \A k \in DOMAIN headers : headers[k] = h => k <= j
        IN  IF i <= Len(r) THEN r[i] ELSE Undefined]

\* Lines 118-119 and 121-122: what a parsed sheet puts in columns and rawData.
\* json[0] of an empty sheet is undefined; `columns` then holds undefined,
\* which the model writes as the empty sequence, and rows is [].
ParsedColumns(json) == IF json = <<>> THEN <<>> ELSE json[1]

ParsedRows(json) ==
    IF json = <<>> THEN <<>>
    ELSE [i \in 1..(Len(json) - 1) |-> RowObject(json[1], json[i + 1])]

\* What fetchCallers() may resolve to.
UserLists ==
    { <<>>,
      <<[id |-> "c1", role |-> "caller"], [id |-> "a1", role |-> "admin"]>> }

\* data.filter((u) => u.role === "caller")
OnlyCallers(data) == SelectSeq(data, LAMBDA u : u.role = "caller")

-----------------------------------------------------------------------------
(* The dialog.                                                              *)

EmptyMapping == [k \in {} |-> ""]

\* Lines 70-82, with the dialog closed and nothing in flight.
Init ==
    /\ open = FALSE
    /\ step = "upload"
    /\ file = "null"
    /\ rawData = <<>>
    /\ columns = <<>>
    /\ columnMapping = EmptyMapping
    /\ parsedLeads = <<>>
    /\ duplicates = 0
    /\ isProcessing = FALSE
    /\ assignmentMode = "auto"
    /\ selectedCaller = ""
    /\ callers = <<>>
    /\ reads = EmptyBag
    /\ fetches = 0
    /\ imported = <<>>

\* The parent renders the dialog open; the effect of lines 84-90 calls
\* fetchCallers().
OpenDialog ==
    /\ ~open
    /\ fetches < MaxFetches
    /\ open' = TRUE
    /\ fetches' = fetches + 1
    /\ imported' = <<>>
    /\ UNCHANGED <<step, file, rawData, columns, columnMapping, parsedLeads,
                   duplicates, isProcessing, assignmentMode, selectedCaller,
                   callers, reads>>

\* Lines 86-88: the promise resolves and the callers are stored.
FetchCallersResolved ==
    /\ fetches > 0
    /\ \E data \in UserLists : callers' = OnlyCallers(data)
    /\ fetches' = fetches - 1
    /\ imported' = <<>>
    /\ UNCHANGED <<open, step, file, rawData, columns, columnMapping, parsedLeads,
                   duplicates, isProcessing, assignmentMode, selectedCaller,
                   reads>>

\* Lines 86-88: the promise rejects; there is no catch, so nothing is stored.
FetchCallersRejected ==
    /\ fetches > 0
    /\ fetches' = fetches - 1
    /\ imported' = <<>>
    /\ UNCHANGED <<open, step, file, rawData, columns, columnMapping, parsedLeads,
                   duplicates, isProcessing, assignmentMode, selectedCaller,
                   callers, reads>>

\* Lines 92-101.
ResetState ==
    /\ step' = "upload"
    /\ file' = "null"
    /\ rawData' = <<>>
    /\ columns' = <<>>
    /\ columnMapping' = EmptyMapping
    /\ parsedLeads' = <<>>
    /\ duplicates' = 0
    /\ isProcessing' = FALSE

\* Lines 103-106 (the Dialog's onOpenChange, line 184); the parent answers
\* onOpenChange(false) by rendering the dialog closed.
HandleClose ==
    /\ open
    /\ ResetState
    /\ open' = FALSE
    /\ imported' = <<>>
    /\ UNCHANGED <<assignmentMode, selectedCaller, callers, reads, fetches>>

\* Lines 108-113: a file is selected and its bytes are awaited.  (With no
\* file selected the handler returns at line 110 and changes nothing.)
HandleFileChange ==
    /\ open
    /\ BagCardinality(reads) < MaxReads
    /\ \E f \in Files : reads' = reads (+) SetToBag({f})
    /\ isProcessing' = TRUE
    /\ imported' = <<>>
    /\ UNCHANGED <<open, step, file, rawData, columns, columnMapping, parsedLeads,
                   duplicates, assignmentMode, selectedCaller, callers, fetches>>

\* Lines 114-124 with line 123 run only at the upload step: a read that
\* completes at a later step leaves the step where it is.
FileParsedKeepsLaterStep ==
    \E f \in BagToSet(reads) :
        /\ f.ok
        /\ reads' = reads (-) SetToBag({f})
        /\ columns' = ParsedColumns(f.json)
        /\ rawData' = ParsedRows(f.json)
        /\ step' = IF step = "upload" THEN "mapping" ELSE step
        /\ isProcessing' = FALSE
        /\ imported' = <<>>
        /\ UNCHANGED <<open, file, columnMapping, parsedLeads, duplicates,
                       assignmentMode, selectedCaller, callers, fetches>>

\* Lines 114-124 for a file XLSX.read accepts.
FileParsed ==
    \E f \in BagToSet(reads) :
        /\ f.ok
        /\ reads' = reads (-) SetToBag({f})
        /\ columns' = ParsedColumns(f.json)
        /\ rawData' = ParsedRows(f.json)
        /\ step' = "mapping"
        /\ isProcessing' = FALSE
        /\ imported' = <<>>
        /\ UNCHANGED <<open, file, columnMapping, parsedLeads, duplicates,
                       assignmentMode, selectedCaller, callers, fetches>>

\* Line 114 throws: the async handler's promise rejects and lines 115-124
\* never run.
FileRejected ==
    \E f \in BagToSet(reads) :
        /\ ~f.ok
        /\ reads' = reads (-) SetToBag({f})
        /\ imported' = <<>>
        /\ UNCHANGED <<open, step, file, rawData, columns, columnMapping,
                       parsedLeads, duplicates, isProcessing, assignmentMode,
                       selectedCaller, callers, fetches>>

\* The field keys the mapping step's selects are exercised on.
MappableKeys == {"name", "phone"}

\* setColumnMapping (line 74) as the mapping step uses it: one field key is
\* given a column of the sheet, or none.
SetColumnMapping ==
    /\ open
    /\ step = "mapping"
    /\ \E key \in MappableKeys :
          \/ \E col \in Range(columns) :
                columnMapping' = [k \in DOMAIN columnMapping \cup {key} |->
                                     IF k = key THEN col ELSE columnMapping[k]]
          \/ columnMapping' = [k \in DOMAIN columnMapping \ {key} |-> columnMapping[k]]
    /\ imported' = <<>>
    /\ UNCHANGED <<open, step, file, rawData, columns, parsedLeads, duplicates,
                   isProcessing, assignmentMode, selectedCaller, callers, reads,
                   fetches>>

\* setAssignmentMode (line 80), before the leads are processed.
SetAssignmentMode ==
    /\ open
    /\ step \in {"mapping", "assignment"}
    /\ \E mode \in {"auto", "single"} : assignmentMode' = mode
    /\ imported' = <<>>
    /\ UNCHANGED <<open, step, file, rawData, columns, columnMapping, parsedLeads,
                   duplicates, isProcessing, selectedCaller, callers, reads,
                   fetches>>

\* setSelectedCaller (line 81): one of the fetched callers, in "single" mode.
SetSelectedCaller ==
    /\ open
    /\ step \in {"mapping", "assignment"}
    /\ assignmentMode = "single"
    /\ \E i \in DOMAIN callers : selectedCaller' = callers[i].id
    /\ imported' = <<>>
    /\ UNCHANGED <<open, step, file, rawData, columns, columnMapping, parsedLeads,
                   duplicates, isProcessing, assignmentMode, callers, reads,
                   fetches>>

\* Lines 127-176.  Date.now() is read once for the pass.
ProcessLeads ==
    /\ open
    /\ \E now \in 0..MaxNow :
          LET pass == ProcessResult(rawData, columnMapping, now)
          IN  /\ duplicates' = pass.dupCount
              /\ parsedLeads' = pass.leads
    /\ step' = "preview"
    /\ imported' = <<>>
    /\ UNCHANGED <<open, file, rawData, columns, columnMapping, isProcessing,
                   assignmentMode, selectedCaller, callers, reads, fetches>>

\* Lines 178-181 with the button shown at every step.
HandleImportAnyStep ==
    /\ open
    /\ imported' = <<parsedLeads>>
    /\ step' = "complete"
    /\ UNCHANGED <<open, file, rawData, columns, columnMapping, parsedLeads,
                   duplicates, isProcessing, assignmentMode, selectedCaller,
                   callers, reads, fetches>>

\* Lines 178-181, behind the button of lines 214-216.
HandleImport ==
    /\ open
    /\ step = "preview"
    /\ imported' = <<parsedLeads>>
    /\ step' = "complete"
    /\ UNCHANGED <<open, file, rawData, columns, columnMapping, parsedLeads,
                   duplicates, isProcessing, assignmentMode, selectedCaller,
                   callers, reads, fetches>>

Next ==
    \/ OpenDialog
    \/ FetchCallersRejected
    \/ FetchCallersResolved
    \/ HandleClose
    \/ HandleFileChange
    \/ FileParsed
    \/ FileRejected
    \/ SetColumnMapping
    \/ SetAssignmentMode
    \/ SetSelectedCaller
    \/ ProcessLeads
    \/ HandleImport

Spec == Init /\ [][Next]_vars

-----------------------------------------------------------------------------
(* processLeads on its own: the dialog is at the mapping step with a sheet  *)
(* and a mapping drawn from bounded sets, and processLeads is run, again    *)
(* and again.                                                               *)

NormColumns == <<"N", "P", "X">>

\* Row arrays under the header N, P, X.
RowPool ==
    { <<Str(S_asha), Str(S_98_7), Str(S_WON)>>,
      <<Str(S_ravi), Str(S_987), Str(S_abc)>>,
      <<Undefined, Str(S_987), Num(5)>>,
      <<Str(S_asha), Num(987), Str(S_constructor)>>,
      <<Str(S_ravi), Str(S_99), Str(S_12)>>,
      <<Str(S_asha), Num(0), Str(S_won)>>,
      <<Str(S_ravi), Str(S_blank)>> }

RECURSIVE SeqsUpTo(_, _)
\* The sequences over S of length at most n.
SeqsUpTo(S, n) ==
    IF n = 0 THEN {<<>>}
    ELSE LET shorter == SeqsUpTo(S, n - 1)
         IN  shorter \cup {Append(s, x) : s \in shorter, x \in S}

NormMappings ==
    { EmptyMapping,
      ("name" :> "N") @@ ("phone" :> "P"),
      ("name" :> "N") @@ ("phone" :> "P") @@ ("stage" :> "X"),
      ("name" :> "N") @@ ("phone" :> "P") @@ ("source" :> "X"),
      ("name" :> "N") @@ ("phone" :> "P") @@ ("priority" :> "X"),
      ("name" :> "N") @@ ("phone" :> "P") @@ ("value" :> "X") @@ ("status" :> "X"),
      ("name" :> "N"),
      ("phone" :> "P"),
      ("name" :> "N") @@ ("phone" :> "N"),
      ("name" :> "X") @@ ("phone" :> "P"),
      ("name" :> "N") @@ ("phone" :> "Mobile") }

InitNorm ==
    /\ open = TRUE
    /\ step = "mapping"
    /\ file = "null"
    /\ \E rows \in SeqsUpTo(RowPool, MaxRows) :
          rawData = ParsedRows(<<NormColumns>> \o rows)
    /\ columns = NormColumns
    /\ columnMapping \in NormMappings
    /\ parsedLeads = <<>>
    /\ duplicates = 0
    /\ isProcessing = FALSE
    /\ assignmentMode = "auto"
    /\ selectedCaller = ""
    /\ callers = <<>>
    /\ reads = EmptyBag
    /\ fetches = 0
    /\ imported = <<>>

NextNorm == ProcessLeads

SpecNorm == InitNorm /\ [][NextNorm]_vars

-----------------------------------------------------------------------------
(* What the claims speak of, read off the raw rows and the mapping.         *)

\* Row i supplies field k: k is mapped and the mapped cell is not blank.
HasValue(i, k) ==
    k \in DOMAIN columnMapping /\ Truthy(RowGet(rawData[i], columnMapping[k]))

\* The normalized phone key of a row that supplies a phone.
RowPhoneKey(i) == StripSpace(ToStr(RowGet(rawData[i], columnMapping["phone"])))

PhoneRows == {i \in DOMAIN rawData : HasValue(i, "phone")}

\* The rows with a name and a phone, and the rows missing one of them.
ValidRows == {i \in DOMAIN rawData : HasValue(i, "name") /\ HasValue(i, "phone")}

MissingRows == DOMAIN rawData \ ValidRows

\* The rows (1-based) the staged leads were built from, by the index in the id.
KeptRows == {parsedLeads[j].id[3] + 1 : j \in DOMAIN parsedLeads}

\* A lead without its identifier and timestamps.
Content(lead) == [f \in DOMAIN lead \ {"id", "createdAt", "updatedAt"} |-> lead[f]]

\* Rows of S that repeat the phone key of an earlier row of S.
Repeats(S) == {i \in S : \E j \in S : j < i /\ RowPhoneKey(j) = RowPhoneKey(i)}

-----------------------------------------------------------------------------
(* Claims about processLeads, under SpecNorm.                               *)

\* C1 as claimed: among all rows that share a normalized phone key only the
\* first one in row order is in the result of processLeads, and duplicates
\* is the number of rows repeating a key already seen, that of an earlier
\* row of the result.
C1_FirstAmongAllRows ==
    step = "preview" =>
        /\ KeptRows \subseteq PhoneRows \ Repeats(PhoneRows)
        /\ duplicates = Cardinality({i \in PhoneRows : \E j \in KeptRows :
                                        j < i /\ RowPhoneKey(j) = RowPhoneKey(i)})

\* C1, amended: among the rows that supply both a name and a phone, exactly
\* those that are the first with their normalized phone key are in the
\* result of processLeads, each once, and duplicates is the number of the
\* others.  A row without a name does not count as an occurrence of its key.
C1_FirstAmongValidRows ==
    step = "preview" =>
        /\ KeptRows = ValidRows \ Repeats(ValidRows)
        /\ Len(parsedLeads) = Cardinality(KeptRows)
        /\ duplicates = Cardinality(Repeats(ValidRows))

\* A kept row follows a row with the same phone key and no name, and a
\* repeat was dropped.
C1_Witness ==
    /\ step = "preview"
    /\ duplicates >= 1
    /\ \E i \in KeptRows : \E j \in PhoneRows \ ValidRows :
          j < i /\ RowPhoneKey(j) = RowPhoneKey(i)

\* C2: after a processLeads pass, the rows missing a name or a phone, plus
\* duplicates, plus the leads of the result, are as many as the raw rows.
C2_RowsAccountedFor ==
    step = "preview" =>
        Cardinality(MissingRows) + duplicates + Len(parsedLeads) = Len(rawData)

\* A pass with a row of each outcome: rejected, duplicate and kept.
C2_Witness ==
    /\ step = "preview"
    /\ MissingRows # {}
    /\ duplicates >= 1
    /\ Len(parsedLeads) >= 1

\* C3: a row whose name or phone is unset after the mapping gives no lead,
\* is not counted in duplicates, and does not stop the rows after it: every
\* other row is kept or counted as a duplicate.
C3_MissingRowsDropped ==
    step = "preview" =>
        /\ KeptRows \cap MissingRows = {}
        /\ \A j \in DOMAIN parsedLeads :
              ~Falsy(parsedLeads[j], "name") /\ ~Falsy(parsedLeads[j], "phone")
        /\ duplicates + Len(parsedLeads) = Cardinality(ValidRows)

\* A row without a name or phone was passed over and a later row was kept.
C3_Witness ==
    /\ step = "preview"
    /\ \E i \in MissingRows : \E k \in KeptRows : i < k

\* C10: processLeads run again on the same rawData and columnMapping gives
\* as many leads with the same contents in the same order (identifiers and
\* timestamps aside) and the same duplicates: the result is replaced.
C10_ReprocessIdempotent ==
    [][(step = "preview" /\ step' = "preview") =>
          /\ Len(parsedLeads') = Len(parsedLeads)
          /\ \A j \in DOMAIN parsedLeads :
                Content(parsedLeads'[j]) = Content(parsedLeads[j])
          /\ duplicates' = duplicates]_vars

\* A staged result with several leads and a dropped repeat, whose
\* identifiers carry the latest clock value.
C10_Witness ==
    /\ step = "preview"
    /\ Len(parsedLeads) >= 2
    /\ duplicates >= 1
    /\ parsedLeads[1].createdAt = MaxNow

\* The vocabulary table and the fallback of an enumerated field.
Vocabulary(k) == CASE k = "source"   -> sourceMapping
                   [] k = "stage"    -> stageMapping
                   [] k = "priority" -> priorityMapping

Fallback(k) == CASE k = "source"   -> "other"
                 [] k = "stage"    -> "new"
                 [] k = "priority" -> "warm"

\* The lower-cased text of the cell row i supplies for field k.
CellText(i, k) == ToLowerCase(ToStr(RowGet(rawData[i], columnMapping[k])))

\* The staged lead built from row i, a kept row.
LeadOf(i) == parsedLeads[CHOOSE j \in DOMAIN parsedLeads : parsedLeads[j].id[3] + 1 = i]

\* C11 as claimed: a kept lead's source, stage or priority, when the field is
\* mapped and the row's cell is supplied, is the table's value for the
\* lower-cased cell text if that text is a key of the table, and the table's
\* fallback (other, new, warm) for every other text.
C11_EnumCanonicalOrFallback ==
    step = "preview" =>
        \A i \in KeptRows : \A k \in {"source", "stage", "priority"} :
            HasValue(i, k) =>
                /\ k \in DOMAIN LeadOf(i)
                /\ LeadOf(i)[k] = IF CellText(i, k) \in DOMAIN Vocabulary(k)
                                  THEN Vocabulary(k)[CellText(i, k)]
                                  ELSE Fallback(k)

\* C13: the result of processLeads is a subsequence of the raw rows in
\* their order: the rows the staged leads were built from are rows of
\* rawData and strictly increase along the result, and each lead carries
\* the name its row supplies.
C13_ResultInRowOrder ==
    step = "preview" =>
        /\ \A j \in DOMAIN parsedLeads : parsedLeads[j].id[3] + 1 \in DOMAIN rawData
        /\ \A j, k \in DOMAIN parsedLeads :
              j < k => parsedLeads[j].id[3] < parsedLeads[k].id[3]
        /\ \A j \in DOMAIN parsedLeads :
              parsedLeads[j].name =
                  ToStr(RowGet(rawData[parsedLeads[j].id[3] + 1], columnMapping["name"]))

\* Two rows were kept with a dropped row between them.
C13_Witness ==
    /\ step = "preview"
    /\ \E j \in DOMAIN parsedLeads :
          /\ j + 1 \in DOMAIN parsedLeads
          /\ parsedLeads[j + 1].id[3] > parsedLeads[j].id[3] + 1

\* C14 as claimed: every staged lead has status active, category property
\* and subcategory india_property; its stage and priority are the defaults
\* new and warm when the field is unmapped or the row's cell is blank, and
\* the cell's value in the field's vocabulary (the table's value for the
\* lower-cased text, else the table's fallback) when the cell is supplied.
C14_DefaultsThenMappedEnums ==
    step = "preview" =>
        \A i \in KeptRows :
            /\ LeadOf(i).status = "active"
            /\ LeadOf(i).category = "property"
            /\ LeadOf(i).subcategory = "india_property"
            /\ \A k \in {"stage", "priority"} :
                  LeadOf(i)[k] =
                      IF ~HasValue(i, k) THEN NewLead(0, 0)[k]
                      ELSE IF CellText(i, k) \in DOMAIN Vocabulary(k)
                           THEN Vocabulary(k)[CellText(i, k)]
                           ELSE Fallback(k)

\* A cell holding text with a character that is neither a digit nor white
\* space.
NonNumericText(val) ==
    val.t = "str" /\ \E n \in DOMAIN val.s : ~IsDigit(val.s[n]) /\ ~IsSpace(val.s[n])

\* The rows whose mapped value cell holds non-numeric text.
BadValueRows ==
    {i \in DOMAIN rawData :
        /\ "value" \in DOMAIN columnMapping
        /\ NonNumericText(RowGet(rawData[i], columnMapping["value"]))}

\* C15: a row whose mapped value cell holds non-numeric text is not rejected
\* for it (it is kept when it has a name and a phone and repeats no earlier
\* such row's phone key), and the lead built from it has its value set, to 0.
C15_BadValueIsZero ==
    step = "preview" =>
        /\ BadValueRows \cap (ValidRows \ Repeats(ValidRows)) \subseteq KeptRows
        /\ \A i \in BadValueRows \cap KeptRows :
              "value" \in DOMAIN LeadOf(i) /\ LeadOf(i).value = 0

\* A row with a non-numeric value cell was kept, next to a kept row whose
\* value cell is a number.
C15_Witness ==
    /\ step = "preview"
    /\ BadValueRows \cap KeptRows # {}
    /\ \E j \in DOMAIN parsedLeads : "value" \in DOMAIN parsedLeads[j] /\ parsedLeads[j].value > 0

\* C18 as claimed: every staged lead has a non-empty phone key (its phone
\* with the white space removed), so a row whose phone cell is white space
\* only gives no lead and the empty key is never recorded as seen.
C18_KeptKeyNonEmpty ==
    step = "preview" =>
        \A j \in DOMAIN parsedLeads : PhoneKey(parsedLeads[j].phone) # <<>>

-----------------------------------------------------------------------------
(* Claims about the dialog, under Spec.                                     *)

Later(s) == CASE s = "upload"     -> {"mapping", "assignment", "preview", "complete"}
              [] s = "mapping"    -> {"assignment", "preview", "complete"}
              [] s = "assignment" -> {"preview", "complete"}
              [] s = "preview"    -> {"complete"}
              [] s = "complete"   -> {}

\* C4 as claimed, for a sheet with rows: the step never advances from
\* mapping to a later step while a required field (name or phone) has no
\* mapped column.
C4_NoAdvanceWithoutRequired ==
    [][(step = "mapping" /\ step' \in Later("mapping") /\ rawData # <<>>) =>
          RequiredKeys \subseteq DOMAIN columnMapping]_vars

\* C5: onImport is called only by the confirmation that takes preview to
\* complete, with the leads staged at preview, which are the result of
\* processLeads on the rawData and columnMapping of that moment; no other
\* step or operation calls it.
C5_ImportOnlyOnConfirm ==
    [][imported' # <<>> =>
          /\ step = "preview"
          /\ step' = "complete"
          /\ imported' = <<parsedLeads>>
          /\ \E now \in 0..MaxNow :
                /\ parsedLeads = ProcessResult(rawData, columnMapping, now).leads
                /\ duplicates = ProcessResult(rawData, columnMapping, now).dupCount]_vars

\* The confirmation handed over a result with a lead in it.
C5_Witness ==
    /\ step = "complete"
    /\ imported # <<>>
    /\ imported[1] = parsedLeads
    /\ Len(parsedLeads) >= 1

\* The state of lines 70-82 as the component is constructed.
FreshSession ==
    /\ step = "upload"
    /\ file = "null"
    /\ rawData = <<>>
    /\ columns = <<>>
    /\ columnMapping = EmptyMapping
    /\ parsedLeads = <<>>
    /\ duplicates = 0
    /\ isProcessing = FALSE
    /\ assignmentMode = "auto"
    /\ selectedCaller = ""
    /\ callers = <<>>

\* C6 as claimed: right after the reset (resetState, run by handleClose),
\* from any step, every piece of state the dialog holds has its initial
\* value.
C6_ResetIsTotal == [][HandleClose => FreshSession']_vars

\* C7 as claimed: a read pending at the reset does not populate columns or
\* rawData when it completes, and the state stays initial until a file is
\* selected after the reset.  handleClose resets and closes, and no file can
\* be selected in a closed dialog, so a closed dialog has no columns and no
\* rows.
C7_NoLeakAcrossReset ==
    ~open => (columns = <<>> /\ rawData = <<>>)

\* C8 as claimed: the step goes from upload to mapping only with a
\* non-empty column set; a file that fails to parse, or whose sheet has no
\* row, leaves the step at upload.
C8_MappingNeedsColumns ==
    [][(step = "upload" /\ step' = "mapping") => columns' # <<>>]_vars

\* C9 as claimed, once a sheet with rows is loaded: a step is entered only
\* from the one before it in the order upload, mapping, assignment, preview,
\* complete, or is upload.
C9_StepsInOrder ==
    [][(step' # step /\ rawData # <<>>) =>
          \/ step' = "upload"
          \/ <<step, step'>> \in { <<"upload", "mapping">>,
                                   <<"mapping", "assignment">>,
                                   <<"assignment", "preview">>,
                                   <<"preview", "complete">> }]_vars

\* C12 as claimed: at most one handleFileChange read is pending at a time;
\* a second read never starts while one is in flight.
C12_OneReadInFlight == BagCardinality(reads) <= 1

\* C16 as claimed: when the fetchCallers() call of an open fails, the callers
\* offered afterwards are none, also when an earlier open's call succeeded.
C16_FailedFetchEmptiesCallers ==
    [][FetchCallersRejected => callers' = <<>>]_vars

\* C17: whenever step is preview or complete, parsedLeads and duplicates are
\* the result of processLeads on the current rawData and columnMapping (for
\* the clock value the pass read); a read that completes, or any other
\* change of rawData, columns or columnMapping, leaves preview and complete.
C17_StagedResultCurrent ==
    step \in {"preview", "complete"} =>
        \E now \in 0..MaxNow :
            /\ parsedLeads = ProcessResult(rawData, columnMapping, now).leads
            /\ duplicates = ProcessResult(rawData, columnMapping, now).dupCount

\* A result with a lead and a dropped repeat is staged or handed over while
\* a file read is still pending.
C17_Witness ==
    /\ step \in {"preview", "complete"}
    /\ Len(parsedLeads) >= 1
    /\ duplicates >= 1
    /\ reads # EmptyBag

\* C19 as claimed: isProcessing, set by a file selection, is cleared by the
\* end of that selection's read and parse, whether they succeed or fail;
\* so whenever no read is pending the dialog is not processing.
C19_ProcessingEnds == reads = EmptyBag => ~isProcessing

=============================================================================
